---- MODULE Spec2Model ----
(***************************************************************************)
(* Model of packages/mermaid/src/diagrams/git/gitGraphParser.ts: the       *)
(* adapter that walks a parsed gitGraph AST and replays it as positional   *)
(* calls on the diagram database (db), after the asynchronous upstream     *)
(* parse of the diagram text.                                              *)
(*                                                                         *)
(* JavaScript values.  A value that may be `undefined` is carried as a     *)
(* sequence of length 0 or 1: Undef is `undefined`, Val(v) is the value v. *)
(* Every AST field and every positional argument is carried this way, so   *)
(* "absent", "empty string", "0" and "empty array" stay four different     *)
(* things, as they are for the operators ??, !==, ?. and if (...) of the   *)
(* source.                                                                 *)
(***************************************************************************)
EXTENDS Integers, Sequences, FiniteSets, TLC

VARIABLES
    input,   \* outcome of the upstream parse('gitGraph', text) for this call
    pc,      \* position of parser.parse / populate
    ast,     \* const ast (line 87), NoAst until the await has resolved
    i,       \* index of the statement the for-of loop (line 24) visits next
    calls,   \* collaborator calls made so far, in program order
    logs,    \* log entries emitted so far, in program order
    error    \* what the promise of parser.parse rejected with, Undef if nothing

vars == <<input, pc, ast, i, calls, logs, error>>

\* Longest statement list enumerated exhaustively.
MaxStmts == 2

----------------------------------------------------------------------------
\* JavaScript values

Undef == <<>>

Val(v) == <<v>>

\* a ?? b
Nullish(a, b) == IF a = Undef THEN b ELSE a

\* ToBoolean of the value of ast.dir (undefined or a string), as if (ast.dir) takes it
Truthy(v) == v # Undef /\ v # Val("")

----------------------------------------------------------------------------
\* gitGraphTypes.ts: the lookup table shared by parseCommit and parseMerge

commitType ==
    [NORMAL |-> 0, REVERSE |-> 1, HIGHLIGHT |-> 2, MERGE |-> 3, CHERRY_PICK |-> 4]

----------------------------------------------------------------------------
\* The five adapters: each returns the positional argument list of its sink call

\* Faulty variant: message and id returned in each other's position.
parseCommit_swapped(commit) ==
    LET id      == commit.id
        message == Nullish(commit.message, Val(""))
        type    == IF commit.type # Undef
                      THEN Val(commitType[commit.type[1]])
                      ELSE Val(commitType.NORMAL)
        tags    == Nullish(commit.tags, Undef)
    IN  <<id, message, type, tags>>

\* Faulty variant: an empty tags array collapsed to undefined, as parseCherryPicking does.
parseCommit_collapseEmpty(commit) ==
    LET id      == commit.id
        message == Nullish(commit.message, Val(""))
        type    == IF commit.type # Undef
                      THEN Val(commitType[commit.type[1]])
                      ELSE Val(commitType.NORMAL)
        tags    == IF commit.tags # Undef /\ Len(commit.tags[1]) = 0
                      THEN Undef
                      ELSE commit.tags
    IN  <<message, id, type, tags>>

parseCommit(commit) ==
    LET id      == commit.id
        message == Nullish(commit.message, Val(""))
        type    == IF commit.type # Undef
                      THEN Val(commitType[commit.type[1]])
                      ELSE Val(commitType.NORMAL)
        tags    == Nullish(commit.tags, Undef)
    IN  <<message, id, type, tags>>

\* Faulty variant: branch.order || 1, which also replaces an explicit order 0.
parseBranch_falsyDefault(branch) ==
    LET name  == branch.name
        order == IF branch.order = Undef \/ branch.order = Val(0) THEN Val(1) ELSE branch.order
    IN  <<name, order>>

parseBranch(branch) ==
    LET name  == branch.name
        order == Nullish(branch.order, Val(0))
    IN  <<name, order>>

\* Faulty variant: the two adapters unified, Merge defaulting to NORMAL like Commit.
parseMerge_defaultNormal(merge) ==
    LET branch == merge.branch
        id     == Nullish(merge.id, Val(""))
        type   == IF merge.type # Undef
                     THEN Val(commitType[merge.type[1]])
                     ELSE Val(commitType.NORMAL)
        tags   == Nullish(merge.tags, Undef)
    IN  <<branch, id, type, tags>>

parseMerge(merge) ==
    LET branch == merge.branch
        id     == Nullish(merge.id, Val(""))
        type   == IF merge.type # Undef
                     THEN Val(commitType[merge.type[1]])
                     ELSE Undef
        tags   == Nullish(merge.tags, Undef)
    IN  <<branch, id, type, tags>>

parseCheckout(checkout) ==
    LET branch == checkout.branch
    IN  <<branch>>

\* Faulty variant: tags passed on as they are, an empty array included.
parseCherryPicking_noCollapse(cherryPicking) ==
    LET id     == cherryPicking.id
        tags   == cherryPicking.tags
        parent == cherryPicking.parent
    IN  <<id, Val(""), tags, parent>>

\* cherryPicking.tags?.length === 0 ? undefined : cherryPicking.tags
parseCherryPicking(cherryPicking) ==
    LET id     == cherryPicking.id
        tags   == IF cherryPicking.tags # Undef /\ Len(cherryPicking.tags[1]) = 0
                     THEN Undef
                     ELSE cherryPicking.tags
        parent == cherryPicking.parent
    IN  <<id, Val(""), tags, parent>>

----------------------------------------------------------------------------
\* parseStatement

Call(method, args) == [method |-> method, args |-> args]

LogEntry(level, msg) == [level |-> level, msg |-> msg]

\* Own keys of the object literal `parsers` (lines 31-35).
OwnParsers == {"Commit", "Branch", "Merge", "Checkout", "CherryPicking"}

\* `parsers` is a plain object literal, so parsers[key] also finds what
\* Object.prototype holds.  These inherited members are functions that return
\* normally when called as parser(statement).
InheritedReturning == {"constructor", "toString"}

\* Inherited members that are truthy but whose call parser(statement) throws a
\* TypeError: __proto__ is the prototype object itself (not callable), the
\* others need a this value and get undefined.
InheritedThrowing ==
    {"__proto__", "hasOwnProperty", "valueOf", "isPrototypeOf",
     "propertyIsEnumerable", "toLocaleString"}

\* const parser = parsers[statement.$type]: which kind of value the lookup yields
parsers(key) ==
    IF key \in OwnParsers THEN "adapter"
    ELSE IF key \in InheritedReturning THEN "inheritedFunction"
    ELSE IF key \in InheritedThrowing THEN "inheritedThrowing"
    ELSE "undefined"

\* The sink call the adapter entry of `parsers` makes for a statement
adapterCall(stmt) ==
    CASE stmt.kind = "Commit"        -> Call("commit", parseCommit(stmt))
      [] stmt.kind = "Branch"        -> Call("branch", parseBranch(stmt))
      [] stmt.kind = "Merge"         -> Call("merge", parseMerge(stmt))
      [] stmt.kind = "Checkout"      -> Call("checkout", parseCheckout(stmt))
      [] stmt.kind = "CherryPicking" -> Call("cherryPick", parseCherryPicking(stmt))

\* parseStatement(statement, db): the calls and logs after it, and whether it threw
parseStatement(statement, cs, ls) ==
    LET parser == parsers(statement.kind)
    IN  CASE parser = "adapter" ->
               [calls |-> Append(cs, adapterCall(statement)), logs |-> ls, threw |-> FALSE]
          [] parser = "inheritedFunction" ->
               [calls |-> cs, logs |-> ls, threw |-> FALSE]
          [] parser = "inheritedThrowing" ->
               [calls |-> cs, logs |-> ls, threw |-> TRUE]
          [] OTHER ->
               [calls |-> cs,
                logs  |-> Append(ls, LogEntry("error", <<"Unknown statement type: ", statement.kind>>)),
                threw |-> FALSE]

----------------------------------------------------------------------------
\* populate, as the effect of each of its steps on the call sequence

\* Faulty variant: the common initialization left out.
populateCommonDb_skipped(cs) == cs

populateCommonDb(cs) == Append(cs, Call("populateCommonDb", <<>>))

\* Faulty variant: db.setDirection(ast.dir) called without the if.
setDirection_unconditional(a, cs) == Append(cs, Call("setDirection", <<a.dir>>))

setDirection(a, cs) ==
    IF Truthy(a.dir) THEN Append(cs, Call("setDirection", <<a.dir>>)) ELSE cs

----------------------------------------------------------------------------
\* Inputs

\* Two of the directions a gitGraph header can carry.
DirValues == {Val("LR"), Val("TB")}

TypeTags == {Val("NORMAL"), Val("HIGHLIGHT")}

TagLists == {Val(<<>>), Val(<<"tag1", "tag2">>)}

Commits ==
    {[kind |-> "Commit", id |-> Val("1"), message |-> m, type |-> t, tags |-> g] :
        m \in {Undef, Val(""), Val("test")},
        t \in {Undef} \cup TypeTags,
        g \in {Undef} \cup TagLists}

Branches ==
    {[kind |-> "Branch", name |-> Val("newBranch"), order |-> o] :
        o \in {Undef, Val(0), Val(1)}}

Merges ==
    {[kind |-> "Merge", branch |-> Val("newBranch"), id |-> d, type |-> t, tags |-> g] :
        d \in {Undef, Val("1")},
        t \in {Undef} \cup TypeTags,
        g \in {Undef, Val(<<>>)}}

Checkouts == {[kind |-> "Checkout", branch |-> Val("newBranch")]}

CherryPicks ==
    {[kind |-> "CherryPicking", id |-> Val("1"), tags |-> g, parent |-> Val("2")] :
        g \in {Undef} \cup TagLists}

\* Statements whose $type is none of the five: a tag no object has, and two
\* tags that name members of Object.prototype.
UnknownTags == {"Reset", "constructor", "__proto__"}

Unknowns == {[kind |-> k] : k \in UnknownTags}

Statements == Commits \cup Branches \cup Merges \cup Checkouts \cup CherryPicks \cup Unknowns

StatementLists == UNION {[1..n -> Statements] : n \in 0..MaxStmts}

\* The AST of the test 'should parse a langium generated gitGraph ast'
LangiumSample ==
    << [kind |-> "Commit", id |-> Val("1"), message |-> Val("test"),
        type |-> Val("NORMAL"), tags |-> Val(<<"tag1", "tag2">>)],
       [kind |-> "Branch", name |-> Val("newBranch"), order |-> Val(1)],
       [kind |-> "Merge", branch |-> Val("newBranch"), id |-> Val("1"),
        type |-> Val("NORMAL"), tags |-> Val(<<"tag1", "tag2">>)],
       [kind |-> "Checkout", branch |-> Val("newBranch")],
       [kind |-> "CherryPicking", id |-> Val("1"),
        tags |-> Val(<<"tag1", "tag2">>), parent |-> Val("2")] >>

Graph(d, s) == [dir |-> d, statements |-> s]

UpstreamErrors == {"LexerError", "ParserError"}

NoAst == <<>>

----------------------------------------------------------------------------
\* parser.parse

Init ==
    /\ \/ \E d \in {Undef} \cup DirValues, s \in StatementLists :
             input = [ok |-> TRUE, ast |-> Graph(d, s)]
       \/ input = [ok |-> TRUE, ast |-> Graph(Undef, LangiumSample)]
       \/ \E e \in UpstreamErrors : input = [ok |-> FALSE, error |-> e]
    /\ pc = "start"
    /\ ast = NoAst
    /\ i = 1
    /\ calls = <<>>
    /\ logs = <<>>
    /\ error = Undef

\* await parse('gitGraph', input) resolves with a tree
ParseResolve ==
    /\ pc = "start"
    /\ input.ok
    /\ ast' = input.ast
    /\ pc' = "parsed"
    /\ UNCHANGED <<input, i, calls, logs, error>>

\* Faulty variant: the rejection caught and an empty graph populated instead.
ParseReject_swallowed ==
    /\ pc = "start"
    /\ ~input.ok
    /\ ast' = Graph(Undef, <<>>)
    /\ pc' = "parsed"
    /\ UNCHANGED <<input, i, calls, logs, error>>

\* await parse('gitGraph', input) rejects: nothing catches it in parser.parse
ParseReject ==
    /\ pc = "start"
    /\ ~input.ok
    /\ error' = Val(input.error)
    /\ pc' = "rejected"
    /\ UNCHANGED <<input, ast, i, calls, logs>>

\* log.debug(ast); populate(ast, db) up to and including populateCommonDb(ast, db)
PopulateCommon ==
    /\ pc = "parsed"
    /\ logs' = Append(logs, LogEntry("debug", <<"ast">>))
    /\ calls' = populateCommonDb(calls)
    /\ pc' = "dir"
    /\ UNCHANGED <<input, ast, i, error>>

\* if (ast.dir) db.setDirection(ast.dir)
PopulateDirection ==
    /\ pc = "dir"
    /\ calls' = setDirection(ast, calls)
    /\ pc' = "loop"
    /\ UNCHANGED <<input, ast, i, logs, error>>

\* one iteration of for (const statement of ast.statements) parseStatement(statement, db)
PopulateStatement ==
    /\ pc = "loop"
    /\ i <= Len(ast.statements)
    /\ LET r == parseStatement(ast.statements[i], calls, logs)
       IN  /\ calls' = r.calls
           /\ logs' = r.logs
           /\ IF r.threw
                 THEN /\ pc' = "threw"
                      /\ error' = Val("TypeError")
                      /\ i' = i
                 ELSE /\ pc' = "loop"
                      /\ error' = error
                      /\ i' = i + 1
    /\ UNCHANGED <<input, ast>>

\* the loop is exhausted: populate returns and the promise of parser.parse resolves
PopulateReturn ==
    /\ pc = "loop"
    /\ i > Len(ast.statements)
    /\ pc' = "done"
    /\ UNCHANGED <<input, ast, i, calls, logs, error>>

Next ==
    \/ ParseResolve
    \/ ParseReject
    \/ PopulateCommon
    \/ PopulateDirection
    \/ PopulateStatement
    \/ PopulateReturn

Spec == Init /\ [][Next]_vars

----------------------------------------------------------------------------
\* Vocabulary of the properties

RecognizedKinds == {"Commit", "Branch", "Merge", "Checkout", "CherryPicking"}

StatementMethods == {"commit", "branch", "merge", "checkout", "cherryPick"}

MethodOf(kind) ==
    CASE kind = "Commit"        -> "commit"
      [] kind = "Branch"        -> "branch"
      [] kind = "Merge"         -> "merge"
      [] kind = "Checkout"      -> "checkout"
      [] kind = "CherryPicking" -> "cherryPick"

IsRecognized(stmt) == stmt.kind \in RecognizedKinds

IsStatementCall(c) == c.method \in StatementMethods

IsSetDirection(c) == c.method = "setDirection"

IsCommonInit(c) == c.method = "populateCommonDb"

IsErrorLog(l) == l.level = "error"

StatementCalls == SelectSeq(calls, IsStatementCall)

\* populate has ended, by returning or by an exception leaving it
Ended == pc \in {"done", "threw"}

\* populate has been entered and is past the direction step
PastDirection == pc \in {"loop", "done", "threw"}

\* the statements the loop has gone through without an exception
Visited == IF PastDirection THEN SubSeq(ast.statements, 1, i - 1) ELSE <<>>

\* the statement parseStatement has last returned from, and the last call made
HasLast == PastDirection /\ i > 1

LastStmt == ast.statements[i - 1]

LastCall == calls[Len(calls)]

LastIs(kind) == HasLast /\ LastStmt.kind = kind

\* LastStmt is recognized and the last call is the call of its method
LastCalled(kind) ==
    LastIs(kind) => Len(calls) > 0 /\ LastCall.method = MethodOf(kind)

SameCalls(a, b) ==
    /\ Len(a) = Len(b)
    /\ \A k \in 1..Len(a) : a[k].method = b[k].method /\ a[k].args = b[k].args

----------------------------------------------------------------------------
\* C1: once populate has ended, the statement-derived sink calls are, in
\* order, exactly the calls of the recognized statements of graph.statements:
\* one call per recognized statement, by the method of its $type, none
\* dropped, repeated or out of place.
C1_OneCallPerRecognizedStatement ==
    Ended =>
        LET want == SelectSeq(ast.statements, IsRecognized)
            got  == StatementCalls
        IN  /\ Len(got) = Len(want)
            /\ \A k \in 1..Len(got) :
                  /\ got[k].method = MethodOf(want[k].kind)
                  /\ got[k].args = adapterCall(want[k]).args

\* C1, as far as the code goes: the same holds of every graph none of whose
\* $type values is a throwing member of Object.prototype.
C1_HoldsWithoutThrowingTags ==
    (Ended /\ \A k \in 1..Len(ast.statements) :
                 ast.statements[k].kind \notin InheritedThrowing)
    => C1_OneCallPerRecognizedStatement

\* C2: a statement whose $type is none of the five raises nothing, makes no
\* sink call and is logged with its tag, and the traversal goes on: no
\* exception leaves populate, the error log holds one entry per unrecognized
\* statement gone through, naming its tag, in order, and the statement calls
\* are those of the recognized statements gone through.
C2_UnknownTagLoggedAndSkipped ==
    /\ pc # "threw"
    /\ PastDirection =>
          LET unknown == SelectSeq(Visited, LAMBDA st : ~IsRecognized(st))
              known   == SelectSeq(Visited, IsRecognized)
              errs    == SelectSeq(logs, IsErrorLog)
          IN  /\ Len(errs) = Len(unknown)
              /\ \A k \in 1..Len(errs) : errs[k].msg[2] = unknown[k].kind
              /\ Len(StatementCalls) = Len(known)
    /\ pc = "done" => i = Len(ast.statements) + 1

\* C2, as far as the code goes: the same holds of every graph whose
\* unrecognized $type values are not members of Object.prototype.
C2_HoldsWithoutInheritedTags ==
    (input.ok /\ \A k \in 1..Len(input.ast.statements) :
                    input.ast.statements[k].kind
                        \notin InheritedReturning \cup InheritedThrowing)
    => C2_UnknownTagLoggedAndSkipped

C4_TypeDefaults ==
    /\ LastCalled("Commit") /\ LastCalled("Merge")
    /\ LastIs("Commit") =>
          LastCall.args[3] =
              IF LastStmt.type = Undef THEN Val(commitType.NORMAL)
              ELSE Val(commitType[LastStmt.type[1]])
    /\ LastIs("Merge") =>
          LastCall.args[3] =
              IF LastStmt.type = Undef THEN Undef
              ELSE Val(commitType[LastStmt.type[1]])

C4_Witness ==
    /\ pc = "done"
    /\ Len(ast.statements) = 2
    /\ ast.statements[1].kind = "Commit" /\ ast.statements[1].type = Undef
    /\ ast.statements[2].kind = "Merge" /\ ast.statements[2].type = Undef
    /\ calls[Len(calls) - 1].args[3] = Val(commitType.NORMAL)
    /\ calls[Len(calls)].args[3] = Undef

\* C5: a CherryPicking statement is passed on as cherryPick(id, "", tags,
\* parent): the second argument is always the empty string, the tags are absent
\* when the statement has none or an empty array and are the statement's tags
\* otherwise, id and parent are the statement's own.
C5_CherryPickArguments ==
    /\ LastCalled("CherryPicking")
    /\ LastIs("CherryPicking") =>
          /\ Len(LastCall.args) = 4
          /\ LastCall.args[1] = LastStmt.id
          /\ LastCall.args[2] = Val("")
          /\ LastCall.args[3] =
                IF LastStmt.tags = Undef THEN Undef
                ELSE IF Len(LastStmt.tags[1]) = 0 THEN Undef
                ELSE LastStmt.tags
          /\ LastCall.args[4] = LastStmt.parent

C5_Witness ==
    /\ LastIs("CherryPicking")
    /\ LastStmt.tags = Val(<<>>)
    /\ LastCall.method = "cherryPick"
    /\ LastCall.args[3] = Undef

\* C6: the graph of the test suite (no direction; Commit, Branch, Merge,
\* Checkout, CherryPicking) yields commit("test","1",0,[tag1,tag2]),
\* branch("newBranch",1), merge("newBranch","1",0,[tag1,tag2]),
\* checkout("newBranch"), cherryPick("1","",[tag1,tag2],"2"), in this order.
C6_LangiumSampleCalls ==
    (pc = "done" /\ ast = Graph(Undef, LangiumSample)) =>
        SameCalls(StatementCalls,
            << Call("commit", <<Val("test"), Val("1"), Val(0), Val(<<"tag1", "tag2">>)>>),
               Call("branch", <<Val("newBranch"), Val(1)>>),
               Call("merge", <<Val("newBranch"), Val("1"), Val(0), Val(<<"tag1", "tag2">>)>>),
               Call("checkout", <<Val("newBranch")>>),
               Call("cherryPick", <<Val("1"), Val(""), Val(<<"tag1", "tag2">>), Val("2")>>) >>)

C6_Witness ==
    /\ pc = "done"
    /\ ast = Graph(Undef, LangiumSample)
    /\ Len(StatementCalls) = 5

\* C7: message, id of a Merge and order are defaulted ("", "", 0) only when
\* absent; a value that is present, an empty string or a 0 included, is the
\* argument passed.
C7_ScalarDefaults ==
    /\ LastCalled("Commit") /\ LastCalled("Merge") /\ LastCalled("Branch")
    /\ LastIs("Commit") =>
          LastCall.args[1] =
              IF LastStmt.message = Undef THEN Val("") ELSE LastStmt.message
    /\ LastIs("Merge") =>
          LastCall.args[2] = IF LastStmt.id = Undef THEN Val("") ELSE LastStmt.id
    /\ LastIs("Branch") =>
          LastCall.args[2] = IF LastStmt.order = Undef THEN Val(0) ELSE LastStmt.order

C7_Witness ==
    /\ pc = "done"
    /\ Len(ast.statements) = 2
    /\ ast.statements[1].kind = "Branch" /\ ast.statements[1].order = Val(0)
    /\ ast.statements[2].kind = "Merge" /\ ast.statements[2].id = Undef
    /\ calls[Len(calls) - 1].args[2] = Val(0)
    /\ calls[Len(calls)].args[2] = Val("")

\* C8: when the upstream parse fails, parser.parse rejects with that very
\* failure and nothing is called or logged; calls are made only once the
\* parse has returned a tree, on that tree, and populate runs at most once.
C8_ParseFailurePropagates ==
    /\ ~input.ok => pc \in {"start", "rejected"} /\ calls = <<>> /\ logs = <<>>
    /\ pc = "rejected" => ~input.ok /\ error = Val(input.error)
    /\ calls # <<>> => input.ok /\ ast = input.ast
    /\ Len(SelectSeq(calls, IsCommonInit)) <= 1

C8_Witness ==
    /\ pc = "rejected"
    /\ error = Val("ParserError")
    /\ calls = <<>>

\* C9: populateCommonDb is called exactly once and first; a setDirection call
\* comes right after it and before every statement call; no setDirection call
\* follows a commit, branch, merge, checkout or cherryPick call.
C9_ThreePhases ==
    /\ pc \in {"dir", "loop", "done", "threw"} =>
          /\ Len(SelectSeq(calls, IsCommonInit)) = 1
          /\ IsCommonInit(calls[1])
    /\ pc \in {"start", "parsed", "rejected"} => calls = <<>>
    /\ \A k \in 1..Len(calls) :
          /\ IsSetDirection(calls[k]) => k = 2
          /\ IsStatementCall(calls[k]) =>
                /\ k > 1
                /\ \A j \in (k + 1)..Len(calls) : ~IsSetDirection(calls[j])
                /\ \A j \in (k + 1)..Len(calls) : ~IsCommonInit(calls[j])

C9_Witness ==
    /\ pc = "done"
    /\ ast.dir # Undef
    /\ Len(calls) = 4
    /\ IsCommonInit(calls[1])
    /\ IsSetDirection(calls[2])
    /\ IsStatementCall(calls[3]) /\ IsStatementCall(calls[4])

\* C10: commit and merge pass the statement's tags as they are, an empty
\* array as an empty array and absent only when the statement has none, while
\* cherryPick passes an empty array as absent.
C10_EmptyTagsOnlyCollapsedByCherryPick ==
    /\ LastCalled("Commit") /\ LastCalled("Merge") /\ LastCalled("CherryPicking")
    /\ LastIs("Commit") \/ LastIs("Merge") =>
          /\ LastCall.args[4] = LastStmt.tags
          /\ LastCall.args[4] = Undef <=> LastStmt.tags = Undef
    /\ LastIs("CherryPicking") /\ LastStmt.tags = Val(<<>>) =>
          LastCall.args[3] = Undef

C10_Witness ==
    /\ pc = "done"
    /\ Len(ast.statements) = 2
    /\ ast.statements[1].kind = "Merge" /\ ast.statements[1].tags = Val(<<>>)
    /\ ast.statements[2].kind = "CherryPicking" /\ ast.statements[2].tags = Val(<<>>)
    /\ calls[Len(calls) - 1].args[4] = Val(<<>>)
    /\ calls[Len(calls)].args[3] = Undef

====
